---- MODULE Spec2Model ----
(***************************************************************************)
(* CVEStack posters.py: the dispatch engine (CVEPoster), its three sinks   *)
(* (SlackPoster, LoggingPoster, RSSPoster), the cache file and the RSS     *)
(* request handler, as a state machine.                                    *)
(*                                                                         *)
(* One process holds at most one engine.  A poll cycle                     *)
(* (post_to_feed_if_needed) is a sequence of steps of the calling thread:  *)
(* PollBegin (lines 70-80: reload, generate, diff), one Post* step per     *)
(* item handed to post, PollEnd (lines 83-86) and PollReturn.  The RSS     *)
(* server thread (do_GET) runs between any two steps.                      *)
(***************************************************************************)
EXTENDS Integers, Sequences, FiniteSets, TLC

\* ---------------------------------------------------------------- bounds
MaxLen == 2          \* longest candidate list the matcher yields
MaxEntries == 3      \* entries the feed document may hold before polls stop
MaxHandlers == 2     \* handlers the logger may hold before reloads stop
MaxOverlapLen == 1   \* items in the feed of a poll that may overlap another

\* ------------------------------------------------------------ value sets
\* The threads that may call post_to_feed_if_needed.  The program as run
\* polls on the main thread only; the second caller is the overlapping
\* trigger that spec section 5 rules out.
Threads == {"t1", "t2"}
MainThread == "t1"

Ids == {"A", "B", "C"}
Keywords == {"k1"}

\* A FeedItem of the matcher: feed_entry fields are functions of the id.
Items == [tag : {"Item"}, id : Ids, matched_on : Keywords]

\* str(c): the identity string, a serialization of every field.
Str(c) == [tag |-> "str", id |-> c.id, matched_on |-> c.matched_on]

Idents == {Str(c) : c \in Items}

Title(c) == <<"title", c.id>>
Link(c) == <<"link", c.id>>
Unset == <<>>

NoneV == "None"
Webhooks == {NoneV, "hook1"}
Locations == {"loc1", "loc2"}
Configs == [slack_webhook : Webhooks, log_location : Locations,
            log_enable_syslog : BOOLEAN]

\* What requests.post can come back with: a transport error or a status.
Responses == {"ConnectionError", "200", "304", "404"}

\* Response.raise_for_status raises for 4xx and 5xx only.
RaisesForStatus(r) == r \in {"404"}

SinkKinds == {"slack", "log", "rss"}

\* The configurations a sink is run with: the keys it reads vary, the keys
\* of the other sinks stay as in DefaultConfig.
DefaultConfig == [slack_webhook |-> NoneV, log_location |-> "loc1",
                  log_enable_syslog |-> FALSE]

ConfigsFor(kind) ==
    {c \in Configs :
        /\ kind # "slack" => c.slack_webhook = DefaultConfig.slack_webhook
        /\ kind # "log" => /\ c.log_location = DefaultConfig.log_location
                           /\ c.log_enable_syslog = DefaultConfig.log_enable_syslog}

\* ------------------------------------------------------------- sequences
Range(s) == {s[i] : i \in 1..Len(s)}

SeqsUpTo(S, n) == UNION {[1..k -> S] : k \in 0..n}

\* list(aSet): the elements once each, in an order the code does not fix.
ListsOf(S) == {s \in [1..Cardinality(S) -> S] : Range(s) = S}

\* Number of positions of s that hold x.
RECURSIVE CountIn(_, _)
CountIn(s, x) == IF s = <<>> THEN 0
                 ELSE (IF Head(s) = x THEN 1 ELSE 0) + CountIn(Tail(s), x)

\* ------------------------------------------------------- optional values
None == [none |-> TRUE, set |-> {}]
Some(S) == [none |-> FALSE, set |-> S]

\* Python truth of old_cve_list: None and the empty set are both false.
Truthy(x) == ~x.none /\ x.set # {}

\* --------------------------------------------------------------- file
Absent == [kind |-> "absent", data |-> <<>>]
Corrupt == [kind |-> "corrupt", data |-> <<>>]
Json(s) == [kind |-> "json", data |-> s]

VARIABLES
    deployed,      \* the poster type this deployment runs: its name names
                   \* the cache file
    engine,        \* "none" | "constructing" | "up" | "failed"
    sink,          \* the class constructed: a member of SinkKinds, or NoneV
    selfConfig,    \* self.config
    cache_file,    \* the contents of .{name}_cve_cache, name as deployed
    persisted,     \* the identity set the latest line 86 wrote, if any
    warned,        \* line 57 printed its message, when the latest step was
                   \* the constructor's
    old_cve_list,  \* self.old_cve_list
    cve_list,      \* self.cve_list (None is kept as the empty list)
    slack_webhook, \* SlackPoster.slack_webhook
    log_location,  \* LoggingPoster.log_location
    handlers,      \* addresses of the handlers attached to logger 'CVEStack'
    feedgen,       \* RSSPoster.feedgen: the entries of the shared document
    pc,            \* per thread: "idle" | "loop" | "entry" | "done" | "raised"
    cve_strs,      \* per thread: local cve_strs
    todo,          \* per thread: the rest of the list the for loop iterates
    entry,         \* per thread: index in feedgen of RSSPoster.post's entry
    startOld,      \* per thread: old_cve_list as the cycle found it
    startFile,     \* per thread: cache_file as the cycle found it
    cands,         \* per thread: the candidate list of the cycle
    batch,         \* per thread: the whole list the for loop iterates
    attempts,      \* per thread: the calls of post made in the cycle
    relocated,     \* per thread: _reload_config took its syslog branch
    prevStrs,      \* per thread: candidate identities of the previous cycle
    lastStatus,    \* per thread: the answer to the latest request of the cycle
    alerted,       \* identities delivered by this engine and candidates since
    lastStrs,      \* candidate identities of the engine's latest cycle
    delivered,     \* items whose RSSPoster.post returned, in this process
    lastGet        \* what do_GET rendered, when the latest step was one

vars == <<deployed, persisted, warned, lastStatus, alerted,
          engine, sink, selfConfig, cache_file, old_cve_list, cve_list,
          slack_webhook, log_location, handlers, feedgen, pc, cve_strs, todo,
          entry,
          startOld, startFile, cands, batch, attempts, relocated, prevStrs,
          lastStrs, delivered, lastGet>>

engineVars == <<engine, sink, selfConfig>>
sinkVars == <<slack_webhook, log_location, handlers>>
localVars == <<cve_strs, todo, entry, startOld, startFile, cands, batch, attempts,
               relocated, prevStrs, lastStatus>>

\* lastGet when the latest step was not a do_GET.
NoGet == [served |-> FALSE, ok |-> FALSE, entries |-> <<>>,
          expect |-> <<>>, torn |-> FALSE]

\* A fresh process: nothing constructed, the logger and the document empty.
FreshMemory ==
    /\ engine = "none"
    /\ sink = NoneV
    /\ selfConfig = DefaultConfig
    /\ old_cve_list = None
    /\ cve_list = <<>>
    /\ slack_webhook = NoneV
    /\ log_location = NoneV
    /\ handlers = <<>>
    /\ feedgen = <<>>
    /\ pc = [t \in Threads |-> "idle"]
    /\ cve_strs = [t \in Threads |-> {}]
    /\ todo = [t \in Threads |-> <<>>]
    /\ entry = [t \in Threads |-> 0]
    /\ startOld = [t \in Threads |-> None]
    /\ startFile = [t \in Threads |-> Absent]
    /\ cands = [t \in Threads |-> <<>>]
    /\ batch = [t \in Threads |-> <<>>]
    /\ attempts = [t \in Threads |-> <<>>]
    /\ relocated = [t \in Threads |-> FALSE]
    /\ prevStrs = [t \in Threads |-> None]
    /\ lastStatus = [t \in Threads |-> NoneV]
    /\ alerted = {}
    /\ warned = FALSE
    /\ lastStrs = None
    /\ delivered = <<>>
    /\ lastGet = NoGet

\* Before the first start: the deployment's poster type is chosen, and its
\* cache file is missing or holds text that json.loads refuses (garbage, or
\* the empty file a write cut short leaves behind).
Init ==
    /\ FreshMemory
    /\ deployed \in SinkKinds
    /\ cache_file \in {Absent, Corrupt}
    /\ persisted = None

\* ------------------------------------------------------------ CVEPoster
LoadCacheTail(f) ==
    IF f.kind = "json" /\ f.data # <<>> THEN Some(Range(Tail(f.data))) ELSE None

\* CVEPoster.__init__, lines 48-57: old_cve_list stays None unless the file
\* exists and parses; a file that does not parse is reported and dropped.
LoadCache(f) == IF f.kind = "json" THEN Some(Range(f.data)) ELSE None

WarnsNever(f) == FALSE

\* Lines 55-57: the except branch, which prints the message.
Warns(f) == f.kind = "corrupt"

\* Line 72: the set of the candidates' identity strings.
StrSet(cl) == {Str(cl[i]) : i \in 1..Len(cl)}

PostListAll(old, cl) == {cl}

\* Lines 75-81: the lists the for loop may iterate.  With a truthy snapshot it
\* is list(cve_strs - old_cve_list), identity strings in any order; otherwise
\* it is self.cve_list itself, the FeedItems in the matcher's order.
PostList(old, cl) ==
    IF Truthy(old) THEN ListsOf(StrSet(cl) \ old.set) ELSE {cl}

ShouldSaveAlways(cl) == TRUE

\* Line 83: if self.cve_list
ShouldSave(cl) == cl # <<>>

NewSnapshotMerged(old, strs) == Some(old.set \cup strs)

\* Line 84: self.old_cve_list = cve_strs
NewSnapshot(old, strs) == Some(strs)

SnapshotOnRaiseSaved(old, strs) == Some(strs)

\* Lines 77-86: an exception out of post skips lines 83-86, so the snapshot
\* is what it was (no try/finally stores the cycle's identities).
SnapshotOnRaise(old, strs) == old

\* The identity a call of post is about.
Ident(arg) == IF arg.tag = "Item" THEN Str(arg) ELSE arg

\* ------------------------------------------------------------ the sinks
\* LoggingPoster._reload_config, lines 153-156: the branch taken when syslog
\* is on and the location changed.
SyslogBranch(cfg) ==
    sink = "log" /\ selfConfig.log_enable_syslog
                 /\ cfg.log_location # log_location

\* Lines 154-156: a new SysLogHandler on self.log_location, which line 157
\* has not updated yet, added to the handlers the logger already has.
ReloadHandlers(hs, oldLoc, newLoc) == Append(hs, oldLoc)

\* Lines 143-148: the handler the constructor attaches in syslog mode; in
\* file mode basicConfig gives the root logger its one handler.
InitHandlers(cfg) ==
    IF cfg.log_enable_syslog THEN <<cfg.log_location>> ELSE <<>>

\* Line 160: one record to logger 'CVEStack' is written once by each of its
\* handlers, and in file mode once by the root logger's handler.
LinesPerRecord == IF selfConfig.log_enable_syslog THEN Len(handlers) ELSE 1

NoText == [tag |-> "none", id |-> "", matched_on |-> ""]

\* str(cve) of line 160: the identity of a FeedItem, a string as it is.
Text(arg) == IF arg.tag = "Item" THEN Str(arg) ELSE arg

\* SlackPoster.post, lines 215-225, on argument arg with response r.
SlackOutcome(arg, hook, r) ==
    IF arg.tag # "Item" THEN "AttributeError"      \* line 215: str.feed_entry
    ELSE IF hook = NoneV THEN "MissingSchema"      \* line 224: requests.post(None)
    ELSE IF r = "ConnectionError" THEN r           \* line 224
    ELSE IF RaisesForStatus(r) THEN "HTTPError"    \* line 225
    ELSE "ok"

\* RSSPoster.post, lines 114-121: the setters called on the new entry.
Setters == <<"id", "link", "title", "description", "summary", "updated",
             "pubDate", "comments">>

IsSet(e, field) == \E i \in 1..e.nset : Setters[i] = field

Reverse(s) == [i \in 1..Len(s) |-> s[Len(s) + 1 - i]]

\* do_GET, lines 95-96: rss_str of the document as it is now.  feedgen
\* refuses an entry that has neither title nor description; add_entry
\* prepends, so the newest entry comes first.
Renders(doc) ==
    \A i \in 1..Len(doc) : IsSet(doc[i], "title") \/ IsSet(doc[i], "description")

RenderEntry(e) ==
    [title |-> IF IsSet(e, "title") THEN Title(e.item) ELSE Unset,
     link  |-> IF IsSet(e, "link") THEN Link(e.item) ELSE Unset,
     whole |-> e.nset = Len(Setters)]

Rendered(doc) ==
    IF Renders(doc) THEN Reverse([i \in 1..Len(doc) |-> RenderEntry(doc[i])])
    ELSE <<>>

\* One call of post: its argument, how it ended, whether it reached the sink
\* (a request went out, a record was logged, an entry was completed), and
\* for the log sink the lines written and their text.
Attempt(arg, outcome, sent, lines, text) ==
    [arg |-> arg, outcome |-> outcome, sent |-> sent, lines |-> lines,
     text |-> text]

\* ------------------------------------------------------------- actions
\* SlackPoster(config), LoggingPoster(config) or RSSPoster(config) is called.
\* Lines 45-57, then 206-209, 137-149 or 100-109.  The first two go on to
\* poll inside the constructor; RSSPoster starts its server thread.
Construct(kind, cfg) ==
    /\ engine = "none"
    /\ kind = deployed
    /\ warned' = Warns(cache_file)
    /\ UNCHANGED <<deployed, persisted, alerted>>
    /\ sink' = kind
    /\ selfConfig' = cfg
    /\ old_cve_list' = LoadCache(cache_file)
    /\ cve_list' = <<>>
    /\ slack_webhook' = IF kind = "slack" THEN cfg.slack_webhook ELSE slack_webhook
    /\ log_location' = IF kind = "log" THEN cfg.log_location ELSE log_location
    /\ handlers' = IF kind = "log" THEN InitHandlers(cfg) ELSE handlers
    /\ engine' = IF kind = "rss" THEN "up" ELSE "constructing"
    /\ UNCHANGED <<cache_file, feedgen, pc, localVars, lastStrs, delivered>>
    /\ lastGet' = NoGet

\* The guard of a poll: the engine exists and the thread is free.  Inside a
\* constructor the caller is the constructing thread and the configuration
\* is the constructor's.
CanPoll(t, cfg, cl) ==
    /\ pc[t] = "idle"
    /\ engine \in {"constructing", "up"}
    /\ engine = "constructing" => t = MainThread /\ cfg = selfConfig
    /\ sink = "rss" => Len(feedgen) + Len(cl) <= MaxEntries
    /\ SyslogBranch(cfg) => Len(handlers) < MaxHandlers

\* post_to_feed_if_needed, lines 70-80, up to the first call of post.
PollBegin(t, cfg, cl) ==
    /\ CanPoll(t, cfg, cl)
    \* line 70: self._reload_config(config)
    /\ slack_webhook' = IF sink = "slack" THEN cfg.slack_webhook ELSE slack_webhook
    /\ handlers' = IF SyslogBranch(cfg)
                   THEN ReloadHandlers(handlers, log_location, cfg.log_location)
                   ELSE handlers
    /\ log_location' = IF sink = "log" THEN cfg.log_location ELSE log_location
    /\ relocated' = [relocated EXCEPT ![t] = SyslogBranch(cfg)]
    \* lines 71-72
    /\ cve_list' = cl
    /\ cve_strs' = [cve_strs EXCEPT ![t] = StrSet(cl)]
    /\ cands' = [cands EXCEPT ![t] = cl]
    \* lines 75-80
    /\ \E l \in PostList(old_cve_list, cl) :
          /\ todo' = [todo EXCEPT ![t] = l]
          /\ batch' = [batch EXCEPT ![t] = l]
    /\ startOld' = [startOld EXCEPT ![t] = old_cve_list]
    /\ startFile' = [startFile EXCEPT ![t] = cache_file]
    /\ attempts' = [attempts EXCEPT ![t] = <<>>]
    /\ prevStrs' = [prevStrs EXCEPT ![t] = lastStrs]
    /\ lastStrs' = Some(StrSet(cl))
    /\ lastStatus' = [lastStatus EXCEPT ![t] = NoneV]
    /\ alerted' = alerted \cap StrSet(cl)
    /\ UNCHANGED <<deployed, persisted>>
    /\ warned' = FALSE
    /\ pc' = [pc EXCEPT ![t] = "loop"]
    /\ UNCHANGED <<engineVars, cache_file, old_cve_list, feedgen, entry,
                   delivered>>
    /\ lastGet' = NoGet

\* An exception leaves post and post_to_feed_if_needed; inside a constructor
\* it leaves the constructor too, and no engine comes to exist.
Raise(t) ==
    /\ pc' = [pc EXCEPT ![t] = "raised"]
    /\ engine' = IF engine = "constructing" THEN "failed" ELSE engine
    /\ old_cve_list' = SnapshotOnRaise(old_cve_list, cve_strs[t])
    /\ UNCHANGED <<todo, sink, selfConfig, alerted>>

\* post returned: the for loop of lines 77-78 or 80-81 goes on.
Continue(t) ==
    /\ pc' = [pc EXCEPT ![t] = "loop"]
    /\ todo' = [todo EXCEPT ![t] = Tail(todo[t])]
    /\ alerted' = alerted \cup {Ident(Head(todo[t]))}
    /\ UNCHANGED <<engineVars, old_cve_list>>

\* SlackPoster.post, lines 214-225, with the endpoint answering r.
PostSlack(t, r) ==
    /\ pc[t] = "loop" /\ todo[t] # <<>> /\ sink = "slack"
    /\ LET arg == Head(todo[t])
           out == SlackOutcome(arg, slack_webhook, r)
           sent == arg.tag = "Item" /\ slack_webhook # NoneV
       IN /\ attempts' = [attempts EXCEPT ![t] = Append(@,
                 Attempt(arg, out, sent, 0, NoText))]
          /\ lastStatus' = [lastStatus EXCEPT ![t] = IF sent THEN r ELSE NoneV]
          /\ IF out = "ok" THEN Continue(t) ELSE Raise(t)
    /\ UNCHANGED <<cache_file, cve_list, sinkVars, feedgen,
                   cve_strs, entry, startOld, startFile, cands, batch,
                   relocated, prevStrs, lastStrs, delivered,
                   deployed, persisted>>
    /\ warned' = FALSE
    /\ lastGet' = NoGet

\* LoggingPoster.post, lines 159-160.
PostLog(t) ==
    /\ pc[t] = "loop" /\ todo[t] # <<>> /\ sink = "log"
    /\ LET arg == Head(todo[t])
       IN attempts' = [attempts EXCEPT ![t] = Append(@,
                 Attempt(arg, "ok", TRUE, LinesPerRecord, Text(arg)))]
    /\ Continue(t)
    /\ UNCHANGED <<cache_file, cve_list, sinkVars, feedgen,
                   cve_strs, entry, startOld, startFile, cands, batch,
                   relocated, prevStrs, lastStrs, delivered,
                   deployed, persisted, lastStatus>>
    /\ warned' = FALSE
    /\ lastGet' = NoGet

\* RSSPoster.post, lines 112-113: feed_item.feed_entry, then add_entry().
PostRSSAdd(t) ==
    /\ pc[t] = "loop" /\ todo[t] # <<>> /\ sink = "rss"
    /\ LET arg == Head(todo[t])
       IN IF arg.tag # "Item"
          THEN /\ attempts' = [attempts EXCEPT ![t] = Append(@,
                      Attempt(arg, "AttributeError", FALSE, 0, NoText))]
               /\ Raise(t)
               /\ UNCHANGED <<feedgen, entry>>
          ELSE /\ feedgen' = Append(feedgen, [item |-> arg, nset |-> 0])
               /\ entry' = [entry EXCEPT ![t] = Len(feedgen) + 1]
               /\ pc' = [pc EXCEPT ![t] = "entry"]
               /\ UNCHANGED <<attempts, todo, engineVars, old_cve_list,
                              alerted>>
    /\ UNCHANGED <<cache_file, cve_list, sinkVars, cve_strs,
                   startOld, startFile, cands, batch, relocated, prevStrs,
                   lastStrs, delivered,
                   deployed, persisted, lastStatus>>
    /\ warned' = FALSE
    /\ lastGet' = NoGet

\* RSSPoster.post, one of lines 114-121: the next setter on the entry; after
\* the last one post returns.
PostRSSSet(t) ==
    /\ pc[t] = "entry" /\ sink = "rss"
    /\ LET e == feedgen[entry[t]]
           last == e.nset + 1 = Len(Setters)
       IN /\ feedgen' = [feedgen EXCEPT ![entry[t]].nset = @ + 1]
          /\ IF last
             THEN /\ attempts' = [attempts EXCEPT ![t] = Append(@,
                         Attempt(e.item, "ok", TRUE, 0, NoText))]
                  /\ delivered' = Append(delivered, e.item)
                  /\ entry' = [entry EXCEPT ![t] = 0]
                  /\ Continue(t)
             ELSE UNCHANGED <<attempts, delivered, entry, pc, todo, engineVars,
                              old_cve_list, alerted>>
    /\ UNCHANGED <<cache_file, cve_list, sinkVars, cve_strs,
                   startOld, startFile, cands, batch, relocated, prevStrs,
                   lastStrs,
                   deployed, persisted, lastStatus>>
    /\ warned' = FALSE
    /\ lastGet' = NoGet

\* post_to_feed_if_needed, lines 83-86, after the loop ran out.
PollEnd(t) ==
    /\ pc[t] = "loop" /\ todo[t] = <<>>
    /\ IF ShouldSave(cve_list)
       THEN /\ old_cve_list' = NewSnapshot(old_cve_list, cve_strs[t])
            /\ \E l \in ListsOf(NewSnapshot(old_cve_list, cve_strs[t]).set) :
                  cache_file' = Json(l)
            /\ persisted' = NewSnapshot(old_cve_list, cve_strs[t])
       ELSE UNCHANGED <<old_cve_list, cache_file, persisted>>
    /\ UNCHANGED <<deployed, alerted>>
    /\ warned' = FALSE
    /\ pc' = [pc EXCEPT ![t] = "done"]
    /\ engine' = IF engine = "constructing" THEN "up" ELSE engine
    /\ UNCHANGED <<sink, selfConfig, cve_list, sinkVars, feedgen, localVars,
                   lastStrs, delivered>>
    /\ lastGet' = NoGet

\* post_to_feed_if_needed is left, by return or by the exception reaching a
\* caller that goes on; the locals are gone.
PollReturn(t) ==
    /\ pc[t] \in {"done", "raised"}
    /\ engine = "up"
    /\ pc' = [pc EXCEPT ![t] = "idle"]
    /\ cve_strs' = [cve_strs EXCEPT ![t] = {}]
    /\ todo' = [todo EXCEPT ![t] = <<>>]
    /\ entry' = [entry EXCEPT ![t] = 0]
    /\ startOld' = [startOld EXCEPT ![t] = None]
    /\ startFile' = [startFile EXCEPT ![t] = Absent]
    /\ cands' = [cands EXCEPT ![t] = <<>>]
    /\ batch' = [batch EXCEPT ![t] = <<>>]
    /\ attempts' = [attempts EXCEPT ![t] = <<>>]
    /\ relocated' = [relocated EXCEPT ![t] = FALSE]
    /\ prevStrs' = [prevStrs EXCEPT ![t] = None]
    /\ lastStatus' = [lastStatus EXCEPT ![t] = NoneV]
    /\ UNCHANGED <<engineVars, cache_file, old_cve_list, cve_list, sinkVars,
                   feedgen, lastStrs, delivered,
                   deployed, persisted, alerted>>
    /\ warned' = FALSE
    /\ lastGet' = NoGet

\* RequestHandler.do_GET, lines 91-96, on the server thread.
Get ==
    /\ sink = "rss" /\ engine = "up"
    /\ lastGet' = [served |-> TRUE,
                   ok |-> Renders(feedgen),
                   entries |-> Rendered(feedgen),
                   expect |-> delivered,
                   torn |-> \E i \in 1..Len(feedgen) :
                               feedgen[i].nset < Len(Setters)]
    /\ UNCHANGED <<engineVars, cache_file, old_cve_list, cve_list, sinkVars,
                   feedgen, pc, localVars, lastStrs, delivered,
                   deployed, persisted, alerted>>
    /\ warned' = FALSE

\* The process ends and a new one starts: memory is lost, the file stays.
Restart ==
    /\ engine # "none"
    /\ engine' = "none"
    /\ sink' = NoneV
    /\ selfConfig' = DefaultConfig
    /\ old_cve_list' = None
    /\ cve_list' = <<>>
    /\ slack_webhook' = NoneV
    /\ log_location' = NoneV
    /\ handlers' = <<>>
    /\ feedgen' = <<>>
    /\ pc' = [t \in Threads |-> "idle"]
    /\ cve_strs' = [t \in Threads |-> {}]
    /\ todo' = [t \in Threads |-> <<>>]
    /\ entry' = [t \in Threads |-> 0]
    /\ startOld' = [t \in Threads |-> None]
    /\ startFile' = [t \in Threads |-> Absent]
    /\ cands' = [t \in Threads |-> <<>>]
    /\ batch' = [t \in Threads |-> <<>>]
    /\ attempts' = [t \in Threads |-> <<>>]
    /\ relocated' = [t \in Threads |-> FALSE]
    /\ prevStrs' = [t \in Threads |-> None]
    /\ lastStatus' = [t \in Threads |-> NoneV]
    /\ alerted' = {}
    /\ warned' = FALSE
    /\ lastStrs' = None
    /\ delivered' = <<>>
    /\ lastGet' = NoGet
    /\ UNCHANGED <<cache_file, deployed, persisted>>

\* The lists the matcher may yield: any FeedItems, repeats allowed.
CandidateLists == SeqsUpTo(Items, MaxLen)

\* The caller constructs a poster from POSTER_TYPES.
ConstructPoster ==
    \E kind \in SinkKinds : \E cfg \in ConfigsFor(kind) : Construct(kind, cfg)

\* The external trigger calls post_to_feed_if_needed on the main thread (or
\* the constructor does), with the configuration and the feed of the moment.
Poll ==
    \E cl \in CandidateLists, cfg \in ConfigsFor(sink) :
        PollBegin(MainThread, cfg, cl)

Next ==
    \/ ConstructPoster
    \/ Poll
    \/ \E r \in Responses : PostSlack(MainThread, r)
    \/ PostLog(MainThread)
    \/ PostRSSAdd(MainThread)
    \/ PostRSSSet(MainThread)
    \/ PollEnd(MainThread)
    \/ PollReturn(MainThread)
    \/ Get
    \/ Restart

\* The program as it is run: the trigger is serial and every poll cycle runs
\* start to finish on the main thread (spec section 5); the server thread of
\* RSSPoster is the only other thread.
Spec == Init /\ [][Next]_vars

\* The feeds of the overlapping polls: at most MaxOverlapLen items, out of
\* two identities.
OverlapLists ==
    SeqsUpTo({i \in Items : i.id \in {"A", "B"}}, MaxOverlapLen)

\* The external trigger fires on any thread at any time: nothing in
\* post_to_feed_if_needed keeps a second call out while one is in progress.
PollAny ==
    \E t \in Threads, cl \in OverlapLists, cfg \in ConfigsFor(sink) :
        PollBegin(t, cfg, cl)

NextOverlap ==
    \/ ConstructPoster
    \/ PollAny
    \/ \E t \in Threads, r \in Responses : PostSlack(t, r)
    \/ \E t \in Threads : PostLog(t)
    \/ \E t \in Threads : PostRSSAdd(t)
    \/ \E t \in Threads : PostRSSSet(t)
    \/ \E t \in Threads : PollEnd(t)
    \/ \E t \in Threads : PollReturn(t)

\* The program under a trigger that does not wait for the cycle in progress.
SpecOverlap == Init /\ [][NextOverlap]_vars

\* ---- the Webhook sink under a trigger that keeps firing ----
NewItem == CHOOSE c \in Items : c.id = "C"

\* A webhook is configured, and the endpoint answers 200 to every POST.
LiveConfigs == {c \in ConfigsFor("slack") : c.slack_webhook # NoneV}

InitLive == Init /\ deployed = "slack"

ConstructSlack == \E cfg \in LiveConfigs : Construct("slack", cfg)

\* The trigger fires with the feed of the moment; once NewItem has been
\* among the candidates it stays among them.
PollLive ==
    \E cl \in CandidateLists, cfg \in LiveConfigs :
        /\ Str(NewItem) \in lastStrs.set => Str(NewItem) \in StrSet(cl)
        /\ PollBegin(MainThread, cfg, cl)

PostSlackOK == PostSlack(MainThread, "200")

PollEndLive == PollEnd(MainThread)

PollReturnLive == PollReturn(MainThread)

NextLive ==
    \/ ConstructSlack
    \/ PollLive
    \/ PostSlackOK
    \/ PollEndLive
    \/ PollReturnLive

\* The process is started, the trigger is periodic, and a cycle that has
\* begun runs on: each step that stays possible is taken.
SpecLive ==
    /\ InitLive
    /\ [][NextLive]_vars
    /\ WF_vars(ConstructSlack)
    /\ WF_vars(PollLive)
    /\ WF_vars(PostSlackOK)
    /\ WF_vars(PollEndLive)
    /\ WF_vars(PollReturnLive)

\* ============================================================ properties
\* How often the cycle of thread t delivered identity s: the calls of post
\* about s that returned.
TimesDelivered(t, s) ==
    Cardinality({i \in 1..Len(attempts[t]) :
                    /\ attempts[t][i].outcome = "ok"
                    /\ Ident(attempts[t][i].arg) = s})

Ended(t) == pc[t] \in {"done", "raised"}

\* C1 -- Incremental delivery: a poll cycle that starts with a non-empty
\* prior snapshot P and candidates C delivers exactly the identities of
\* C minus P, each once.
IncrementalDelivery ==
    \A t \in Threads :
        (Ended(t) /\ Truthy(startOld[t])) =>
            \A s \in Idents :
                TimesDelivered(t, s) =
                    IF s \in cve_strs[t] \ startOld[t].set THEN 1 ELSE 0

\* C2 -- Idempotence: when the candidate set is the one of the engine's
\* previous poll, the poll delivers nothing.
Idempotence ==
    \A t \in Threads :
        (Ended(t) /\ ~prevStrs[t].none /\ prevStrs[t].set = cve_strs[t]) =>
            \A s \in Idents : TimesDelivered(t, s) = 0

\* C3 -- Cold start: a poll cycle that starts without a snapshot and runs to
\* its end has delivered every candidate identity exactly once, also when
\* the candidate list holds an identity twice.
ColdStartOnce ==
    \A t \in Threads :
        (pc[t] = "done" /\ startOld[t].none) =>
            \A s \in Idents :
                TimesDelivered(t, s) = IF s \in cve_strs[t] THEN 1 ELSE 0

\* C4 -- Empty-feed non-erasure: while an engine lives, the snapshot and the
\* cache file change only in the closing step of a poll cycle that observed
\* at least one candidate; a cycle that observed none ends with both as it
\* found them.
NonErasure ==
    [][ /\ (/\ engine # "none" /\ engine' # "none"
            /\ <<old_cve_list, cache_file>>' # <<old_cve_list, cache_file>>)
           => \E t \in Threads :
                 pc[t] = "loop" /\ pc'[t] = "done" /\ cands[t] # <<>>
        /\ \A t \in Threads :
              (pc'[t] = "done" /\ cands'[t] = <<>>)
              => (old_cve_list' = startOld'[t] /\ cache_file' = startFile'[t])
      ]_vars

\* A cycle without candidates ended on an engine holding a non-empty
\* snapshot and a non-empty cache file.
NonErasureWitness ==
    \E t \in Threads :
        /\ pc[t] = "done" /\ cands[t] = <<>>
        /\ Truthy(startOld[t]) /\ old_cve_list = startOld[t]
        /\ cache_file.kind = "json" /\ cache_file.data # <<>>

\* C5 -- Failure independence: when a poll cycle ends, post has been called
\* for every item of its delivery list, whether or not a call failed.
FailureIndependence ==
    \A t \in Threads : Ended(t) => Len(attempts[t]) = Len(batch[t])

\* C6 -- Snapshot replacement: after a poll cycle that ran to its end with a
\* non-empty candidate list, the snapshot in memory and the cache file both
\* hold exactly the identities of the candidates.
SnapshotReplaced ==
    \A t \in Threads :
        (pc[t] = "done" /\ cands[t] # <<>>) =>
            /\ old_cve_list = Some(StrSet(cands[t]))
            /\ cache_file.kind = "json"
            /\ Range(cache_file.data) = StrSet(cands[t])
            /\ Len(cache_file.data) = Cardinality(StrSet(cands[t]))

\* A cycle ended whose candidates lack an identity of the prior snapshot and
\* add one to it.
SnapshotReplacedWitness ==
    \E t \in Threads :
        /\ pc[t] = "done" /\ cands[t] # <<>>
        /\ Truthy(startOld[t])
        /\ startOld[t].set \ StrSet(cands[t]) # {}
        /\ StrSet(cands[t]) \ startOld[t].set # {}

\* C7 -- Webhook configuration error: a SlackPoster constructed without
\* slack_webhook never comes to exist and never calls post.
WebhookConfigError ==
    (sink = "slack" /\ selfConfig.slack_webhook = NoneV) =>
        (engine # "up" /\ \A t \in Threads : attempts[t] = <<>>)

\* C8 -- Feed document mutual exclusion: no do_GET renders the document
\* while an entry of it is added and not yet fully populated.
FeedMutualExclusion == lastGet.served => ~lastGet.torn

\* How often the rendered entries show item x's title and link.
TimesRendered(es, x) ==
    Cardinality({i \in 1..Len(es) :
                    es[i].title = Title(x) /\ es[i].link = Link(x)})

\* C9 -- Feed accumulation: a do_GET after N deliveries renders a document
\* of exactly N entries, one per delivered item with its title and link.
FeedAccumulation ==
    lastGet.served =>
        /\ lastGet.ok
        /\ Len(lastGet.entries) = Len(lastGet.expect)
        /\ \A x \in Items :
              TimesRendered(lastGet.entries, x) = CountIn(lastGet.expect, x)

\* C10 -- Log sink hot-reload: after a _reload_config that found syslog
\* active and the destination changed, the logger holds exactly one
\* handler, bound to the new address.
LogHotReload ==
    \A t \in Threads : relocated[t] => handlers = <<log_location>>

\* A constructor runs: CVEPoster.__init__ in a process that had no engine.
Constructs == engine = "none" /\ engine' # "none"

\* C11 -- Cache round-trip: the snapshot a constructor loads is the identity
\* set the latest completed cycle persisted, in whatever order line 86 wrote
\* its elements.
CacheRoundTrip ==
    [][(Constructs /\ ~persisted.none) => old_cve_list' = persisted]_vars

\* A new engine, not yet polled, holds a snapshot of two identities read
\* from a file that lists them in descending order of id.
CacheRoundTripWitness ==
    /\ engine # "none" /\ lastStrs.none
    /\ Cardinality(persisted.set) = 2 /\ old_cve_list = persisted
    /\ Len(cache_file.data) = 2
    /\ cache_file.data[1].id = "B" /\ cache_file.data[2].id = "A"

LastAttempt(t) == attempts[t][Len(attempts[t])]

Is2xx(r) == r = "200"

\* C13 -- Webhook delivery outcome: a SlackPoster.post of an item, with a
\* URL configured, issues one POST, and an answer that is not 2xx ends the
\* call as a failure.
WebhookOutcome ==
    \A t \in Threads :
        (/\ sink = "slack" /\ attempts[t] # <<>>
         /\ LastAttempt(t).arg.tag = "Item" /\ slack_webhook # NoneV)
        => /\ LastAttempt(t).sent
           /\ (lastStatus[t] \notin {NoneV, "ConnectionError"}
               /\ ~Is2xx(lastStatus[t]))
              => LastAttempt(t).outcome # "ok"

\* C15 -- Delivered value: whatever a poll cycle hands to post is a FeedItem
\* of the candidate list, on the cold path and on the diff path.
DeliveredValue ==
    \A t \in Threads :
        \A i \in 1..Len(attempts[t]) :
            /\ attempts[t][i].arg.tag = "Item"
            /\ attempts[t][i].arg \in Range(cands[t])

\* C17 -- Log delivery writes one line: every LoggingPoster.post writes the
\* item's serialized text exactly once, whatever reloads came before.
LogOneLine ==
    \A t \in Threads :
        \A i \in 1..Len(attempts[t]) :
            sink = "log" =>
                /\ attempts[t][i].lines = 1
                /\ attempts[t][i].text = Ident(attempts[t][i].arg)

\* C19 -- Aborted cycle leaves the snapshot unchanged: when an exception
\* left a poll cycle, the snapshot in memory and the cache file are what the
\* cycle found.
AbortKeepsSnapshot ==
    \A t \in Threads :
        pc[t] = "raised" =>
            (old_cve_list = startOld[t] /\ cache_file = startFile[t])

\* A cycle was left by an exception after one delivery had succeeded.
AbortKeepsSnapshotWitness ==
    \E t \in Threads :
        /\ pc[t] = "raised" /\ Len(attempts[t]) = 2
        /\ attempts[t][1].outcome = "ok"

\* C20 -- Deduplication survives restart: the first poll of a new engine,
\* whose candidates are the identities the cache file holds from the latest
\* completed cycle, calls post for nothing.
RestartDedup ==
    \A t \in Threads :
        (/\ Ended(t) /\ prevStrs[t].none
         /\ startFile[t].kind = "json"
         /\ Range(startFile[t].data) = cve_strs[t])
        => attempts[t] = <<>>

\* Such a first poll ran to its end, over two identities.
RestartDedupWitness ==
    \E t \in Threads :
        /\ pc[t] = "done" /\ prevStrs[t].none
        /\ startFile[t].kind = "json"
        /\ Range(startFile[t].data) = cve_strs[t]
        /\ Cardinality(cve_strs[t]) = 2

\* post returned normally on thread t in this step.
Succeeds(t) ==
    /\ Len(attempts'[t]) = Len(attempts[t]) + 1
    /\ attempts'[t][Len(attempts'[t])].outcome = "ok"

\* C16 -- No duplicate alerts across cycles: a delivery that succeeds is not
\* for an identity this engine already delivered successfully in an earlier
\* cycle and that has been among the candidates of every cycle since, also
\* when an earlier cycle failed partway through its batch.
NoDuplicateAlerts ==
    [][\A t \in Threads :
          Succeeds(t) =>
              LET s == Ident(attempts'[t][Len(attempts'[t])].arg)
              IN \/ s \notin alerted
                 \/ \E i \in 1..Len(attempts[t]) :
                       /\ attempts[t][i].outcome = "ok"
                       /\ Ident(attempts[t][i].arg) = s]_vars

\* Thread t is inside post_to_feed_if_needed, past its read of the snapshot.
InCycle(t) == pc[t] \in {"loop", "entry"}

\* The identities for which post returned normally in t's cycle.
Alerts(t) ==
    {Ident(attempts[t][i].arg) : i \in {j \in 1..Len(attempts[t]) :
                                            attempts[t][j].outcome = "ok"}}

\* C14 -- No overlapping poll cycles: while two poll cycles of one engine
\* are both in progress, no identity has been delivered by both of them.
NoOverlappingCycles ==
    \A t, u \in Threads :
        (t # u /\ InCycle(t) /\ InCycle(u)) => Alerts(t) \cap Alerts(u) = {}

\* A non-empty snapshot exists and NewItem, not in it, is among the
\* candidates.
NewItemPending ==
    /\ sink = "slack" /\ Truthy(old_cve_list)
    /\ Str(NewItem) \in lastStrs.set
    /\ Str(NewItem) \notin old_cve_list.set

\* C18 -- Eventual delivery of a new item on the Webhook sink: with a
\* non-empty snapshot, a new item that came among the candidates and stays
\* there, and an endpoint that answers 200, some poll cycle completes with
\* the item's identity in the snapshot.
EventualDelivery == NewItemPending ~> (Str(NewItem) \in old_cve_list.set)

====
